---- MODULE Spec2Model ----
(***************************************************************************)
(* FirecrawlProcessManager (src/src/firecrawl/processManager.ts): the      *)
(* supervisor that brings up redis-server, the queue worker and the API    *)
(* server, polls the readiness endpoint and tears the processes down.      *)
(*                                                                         *)
(* The host is one Node.js thread: every callback (timer, child event,     *)
(* fetch settlement) runs to completion together with the promise          *)
(* continuations it resolves, so one action is one callback plus the       *)
(* await-continuations that follow it.  Time is counted in seconds; every  *)
(* delay of the code is a whole number of seconds.                         *)
(***************************************************************************)
EXTENDS Integers, Sequences, FiniteSets, TLC

\* ------------------------------------------------------------------ bounds
\* Number of stop() invocations made from outside start() (signal handlers,
\* callers of the class); the rollback in start() is one more.
MaxStopCalls == 2
\* Number of calls of start() made after the first one.
MaxRestarts == 1

\* ------------------------------------------------------- program constants
maxAttempts == 30
\* delayMs = 1000, in seconds
delaySecs == 1
\* this.delay(2000) between the broker stage and the worker spawn, in seconds
SettleSecs == 2
\* 'Redis failed to start within 10 seconds'
RedisTimeoutSecs == 10
\* setTimeout(..., 5000) of stop(), in seconds
GraceSecs == 5
\* const maxAttempts = 10 of initialize()
initMaxAttempts == 10
\* setTimeout(resolve, 2000) of initialize(), in seconds
InitDelaySecs == 2

Roles == {"api", "worker", "redis"}
\* the order in which start() brings the children up
StartupOrder == <<"redis", "worker", "api">>
processes_StartupOrder == StartupOrder
\* the list stop() iterates over, in its order
processes == <<"api", "worker", "redis">>
Signals == {"SIGTERM", "SIGKILL"}
Off == 0 - 1
\* caller 0 of stop() is the catch block of start(); 1..MaxStopCalls are outside callers
RollbackCaller == 0
Callers == 0 .. MaxStopCalls
Outcomes == {"2xx", "non2xx", "error"}

VARIABLES
    startPc,        \* where start() is
    attempt,        \* loop variable of waitForServices
    startTimer,     \* the pending delay of start() or, after it, of initialize(): seconds left, or Off
    redisTimer,     \* the 10 s timer of startRedis, seconds left, or Off
    fetchState,     \* the readiness request in flight: "none", "inflight", "hung"
    errPending,     \* children whose spawn 'error' event is queued (process.nextTick)
    uncaught,       \* an exception escaped an event listener: the host is gone
    handle,         \* this.redisProcess / workerProcess / apiProcess is assigned
    os,             \* the child as the OS sees it: "none", "failed", "alive", "exited"
    killed,         \* ChildProcess.killed
    killCalls,      \* signals passed to process.kill(), per child
    delivered,      \* signals the OS delivered to the child
    isShuttingDown,
    stopState,      \* per caller of stop(): "idle", "running", "returned"
    snap,           \* the `processes` array captured by the running stop()
    stopWait,       \* the child the running stop() awaits, or "none"
    graceTimer,     \* per child: seconds left on the timer of stop(), or Off
    probeCode,      \* history: exit code of `redis-cli ping`, Off before it exits
    readySeen,      \* history: redis-server printed 'Ready to accept connections'
    sinceBroker,    \* history: seconds waited since startRedis resolved
    probes,         \* history: number of fetch calls waitForServices made
    okSeen,         \* history: a readiness probe got a 2xx response
    startError,     \* history: why start() threw, or "none"
    stopElapsed,    \* history: seconds the running stop() has been awaiting
    expiredAlive,   \* history: the grace timer fired while the child was alive
    exitedInGrace,  \* history: the child exited while stop() awaited it
    hcState,        \* healthCheck(): "idle", or "inflight" while its fetch is pending
    hcProbes,       \* history: fetch calls made by the latest healthCheck() call
    hcOutcome,      \* history: how the fetch of the latest healthCheck() settled
    hcReturn,       \* what the latest healthCheck() call returned, or "none"
    clPc,           \* a request of FirecrawlClient: "idle", "called", "done"
    clOp,           \* the operation requested of the client
    clReply,        \* what the backend does with the request
    clOutcome,      \* what the client method returned or threw
    orphans,        \* roles with a live child whose handle start() overwrote
    startSpawned,   \* history: roles the latest start() call has spawned
    restarts,       \* calls of start() made after the first one
    terminalAtStart,\* history: the latest start() was called after a stop() or a failed start()
    initPc,         \* main() / initialize() of the host: "off" when no host is modelled
    initAttempts,   \* `attempts` of the health loop of initialize()
    hostExit,       \* how the host process ended, or "none"
    cleanups        \* the callers of stop() that are cleanup() runs of the host

startVars == <<startPc, attempt, startTimer, redisTimer, fetchState, errPending, uncaught>>
childVars == <<handle, os, killed, killCalls, delivered, orphans, startSpawned>>
stopVars == <<isShuttingDown, stopState, snap, stopWait, graceTimer>>
histVars == <<probeCode, readySeen, sinceBroker, probes, okSeen, startError,
              stopElapsed, expiredAlive, exitedInGrace>>
hcVars == <<hcState, hcProbes, hcOutcome, hcReturn>>
clVars == <<clPc, clOp, clReply, clOutcome>>
restartVars == <<restarts, terminalAtStart>>
hostVars == <<initPc, initAttempts, hostExit, cleanups>>
facadeVars == <<hcVars, clVars, restartVars, hostVars>>
vars == <<startVars, childVars, stopVars, histVars, facadeVars>>

SupervisorInit ==
    /\ startPc = "idle"
    /\ attempt = 0
    /\ startTimer = Off
    /\ redisTimer = Off
    /\ fetchState = "none"
    /\ errPending = {}
    /\ uncaught = FALSE
    /\ handle = [r \in Roles |-> FALSE]
    /\ os = [r \in Roles |-> "none"]
    /\ killed = [r \in Roles |-> FALSE]
    /\ killCalls = [r \in Roles |-> {}]
    /\ delivered = [r \in Roles |-> {}]
    /\ isShuttingDown = FALSE
    /\ stopState = [c \in Callers |-> "idle"]
    /\ snap = [r \in Roles |-> FALSE]
    /\ stopWait = "none"
    /\ graceTimer = [r \in Roles |-> Off]
    /\ probeCode = Off
    /\ readySeen = FALSE
    /\ sinceBroker = 0
    /\ probes = 0
    /\ okSeen = FALSE
    /\ startError = "none"
    /\ stopElapsed = 0
    /\ expiredAlive = [r \in Roles |-> FALSE]
    /\ exitedInGrace = [r \in Roles |-> FALSE]
    /\ orphans = {}
    /\ startSpawned = {}
    /\ restarts = 0
    /\ terminalAtStart = FALSE

\* the supervisor is used on its own, without the host around it
HostOff ==
    /\ initPc = "off"
    /\ initAttempts = 0
    /\ hostExit = "none"
    /\ cleanups = {}

\* main() has constructed the server and awaits initialize(), which awaits
\* processManager.start(); no signal handler is registered yet
HostOn ==
    /\ initPc = "start"
    /\ initAttempts = 0
    /\ hostExit = "none"
    /\ cleanups = {}

HealthInit ==
    /\ hcState = "idle"
    /\ hcProbes = 0
    /\ hcOutcome = "none"
    /\ hcReturn = "none"

NoReply == [kind |-> "none"]
NoOutcome == [kind |-> "none"]

\* no request has been made of the client
ClientIdle ==
    /\ clPc = "idle"
    /\ clOp = "none"
    /\ clReply = NoReply
    /\ clOutcome = NoOutcome

Init == SupervisorInit /\ HealthInit /\ ClientIdle /\ HostOff

\* ------------------------------------------------------------- scheduling
\* A promise continuation of start() is queued: it runs before any timer,
\* child event or outside call.
\* the host has something to run right after start() or stop() returned to it
HostContinuation ==
    /\ initPc # "off"
    /\ hostExit = "none"
    /\ \/ initPc = "start" /\ startPc \in {"ok", "failed"}
       \/ \E c \in cleanups : stopState[c] = "returned"
MicrotaskPending == startPc \in {"spawn_api", "poll_issue"} \/ HostContinuation
\* process.nextTick callbacks (spawn errors) run after the microtasks and before
\* any other callback.
Busy == MicrotaskPending \/ errPending # {}
HostRuns == ~uncaught /\ hostExit = "none"
Idle == HostRuns /\ ~Busy

IndexOf(r) == CHOOSE i \in 1 .. Len(processes) : processes[i] = r

\* ----------------------------------------------------- ChildProcess.kill
\* kill() reaches the OS only while the child has a handle, i.e. is alive;
\* o is the OS view at the time of the call.
KillDelivers(o, r) == o[r] = "alive"
\* `killed` becomes true when a signal was sent successfully, whether or not
\* the child terminates.
KilledAfter(k, o, r) == IF KillDelivers(o, r) THEN [k EXCEPT ![r] = TRUE] ELSE k
CallsAfter(kc, r, sig) == [kc EXCEPT ![r] = @ \cup {sig}]
DeliveredAfter(dl, o, r, sig) ==
    IF KillDelivers(o, r) THEN [dl EXCEPT ![r] = @ \cup {sig}] ELSE dl

\* ------------------------------------------------------------------ stop()
AlreadyShuttingDown_Never == FALSE
\* if (this.isShuttingDown) return;
AlreadyShuttingDown == isShuttingDown

ShuttingDownSet_Missing == FALSE
\* this.isShuttingDown = true;
ShuttingDownSet == TRUE

\* if (process && !process.killed) of the loop
ShouldTerminate(s, k, r) == s[r] /\ ~k[r]

\* if (process && !process.killed) of the timer callback
TimeoutKills(k, r) == ~k[r]

ArmGrace_Immediate(gt, r) == [gt EXCEPT ![r] = 0]
ArmGrace_Never(gt, r) == gt
\* setTimeout(..., 5000)
ArmGrace(gt, r) == [gt EXCEPT ![r] = GraceSecs]

ExitListenerTimer_NoClear(gt, r) == gt
\* clearTimeout(timeout) of the 'exit' listener
ExitListenerTimer(gt, r) == [gt EXCEPT ![r] = Off]

\* The first entry of `processes` at index >= i that the loop terminates, 0 if none.
RECURSIVE NextTarget(_, _, _)
NextTarget(i, s, k) ==
    IF i > Len(processes) THEN 0
    ELSE IF ShouldTerminate(s, k, processes[i]) THEN i
    ELSE NextTarget(i + 1, s, k)

LoopEnds(i, s, k) == NextTarget(i, s, k) = 0

\* The for-loop of stop() run by caller c from index i up to its next await
\* (or its end): s is the captured array, gt / k / kc / dl / o the timers, killed
\* flags, kill calls, deliveries and OS view the handler before it left.
StopLoop(i, s, c, gt, k, kc, dl, o) ==
    LET j == NextTarget(i, s, k) IN
    IF j = 0
    THEN /\ stopWait' = "none"
         /\ stopState' = [stopState EXCEPT ![c] = "returned"]
         /\ graceTimer' = gt
         /\ killed' = k
         /\ killCalls' = kc
         /\ delivered' = dl
    ELSE LET r == processes[j] IN
         /\ stopWait' = r
         /\ stopState' = [stopState EXCEPT ![c] = "running"]
         /\ graceTimer' = ArmGrace(gt, r)
         /\ killed' = KilledAfter(k, o, r)
         /\ killCalls' = CallsAfter(kc, r, "SIGTERM")
         /\ delivered' = DeliveredAfter(dl, o, r, "SIGTERM")

Owner == CHOOSE c \in Callers : stopState[c] = "running"

\* stop() called from outside start(), by caller c
StopBody(c) ==
    /\ Idle
    /\ c \in 1 .. MaxStopCalls
    /\ stopState[c] = "idle"
    \* outside callers are interchangeable: they are numbered in call order
    /\ c = 1 \/ stopState[c - 1] # "idle"
    /\ IF AlreadyShuttingDown
       THEN /\ stopState' = [stopState EXCEPT ![c] = "returned"]
            /\ UNCHANGED <<isShuttingDown, snap, stopWait, graceTimer,
                           killed, killCalls, delivered>>
       ELSE /\ isShuttingDown' = ShuttingDownSet
            /\ snap' = handle
            /\ StopLoop(1, handle, c, graceTimer, killed, killCalls, delivered, os)
    /\ UNCHANGED <<startVars, handle, os, orphans, startSpawned, histVars>>

\* a caller that holds the process manager calls stop()
StopCall(c) ==
    /\ StopBody(c)
    /\ UNCHANGED facadeVars

\* catch (error) { await this.stop(); throw error; } of start(); o is the OS view
RollbackBegin(err, o) ==
    /\ startError' = err
    /\ IF AlreadyShuttingDown
       THEN /\ stopState' = [stopState EXCEPT ![RollbackCaller] = "returned"]
            /\ startPc' = "failed"
            /\ UNCHANGED <<isShuttingDown, snap, stopWait, graceTimer,
                           killed, killCalls, delivered>>
       ELSE /\ isShuttingDown' = ShuttingDownSet
            /\ snap' = handle
            /\ StopLoop(1, handle, RollbackCaller, graceTimer, killed, killCalls,
                        delivered, o)
            /\ startPc' = IF LoopEnds(1, handle, killed) THEN "failed" ELSE "rollback"

\* start() resumes after `await this.stop()` when the loop run for it ends
StartAfterLoop(i, k) ==
    IF Owner = RollbackCaller /\ LoopEnds(i, snap, k) THEN "failed" ELSE startPc

\* the timer callback of stop() for child r
GraceTimeout(r) ==
    /\ Idle
    /\ graceTimer[r] = 0
    /\ expiredAlive' = [expiredAlive EXCEPT ![r] = @ \/ os[r] = "alive"]
    /\ LET fire == TimeoutKills(killed, r)
           k == IF fire THEN KilledAfter(killed, os, r) ELSE killed
           kc == IF fire THEN CallsAfter(killCalls, r, "SIGKILL") ELSE killCalls
           dl == IF fire THEN DeliveredAfter(delivered, os, r, "SIGKILL") ELSE delivered
           gt == [graceTimer EXCEPT ![r] = Off]
       IN IF stopWait = r
          THEN /\ StopLoop(IndexOf(r) + 1, snap, Owner, gt, k, kc, dl, os)
               /\ startPc' = StartAfterLoop(IndexOf(r) + 1, k)
          ELSE /\ graceTimer' = gt
               /\ killed' = k
               /\ killCalls' = kc
               /\ delivered' = dl
               /\ UNCHANGED <<stopWait, stopState, startPc>>
    /\ UNCHANGED <<attempt, startTimer, redisTimer, fetchState, errPending, uncaught,
                   handle, os, orphans, startSpawned, isShuttingDown, snap,
                   probeCode, readySeen, sinceBroker, probes, okSeen, startError,
                   stopElapsed, exitedInGrace>>
    /\ UNCHANGED facadeVars

\* ----------------------------------------------------------------- start()
\* start() is called (firecrawlServer.ts initialize); startRedis spawns
\* `redis-cli ping` and waits for its 'exit' event
StartCall ==
    /\ Idle
    /\ startPc = "idle"
    /\ startPc' = "redis_probe"
    /\ UNCHANGED <<attempt, startTimer, redisTimer, fetchState, errPending, uncaught,
                   childVars, stopVars, histVars>>
    /\ UNCHANGED facadeVars

\* `redis-cli` cannot be spawned: its 'error' event has no listener and no
\* 'exit' event follows
ProbeSpawnError ==
    /\ Idle
    /\ startPc = "redis_probe"
    /\ uncaught' = TRUE
    /\ UNCHANGED <<startPc, attempt, startTimer, redisTimer, fetchState, errPending,
                   childVars, stopVars, histVars>>
    /\ UNCHANGED facadeVars

ProbeSaysLive_Always(code) == TRUE
ProbeSaysLive_Never(code) == FALSE
\* if (code === 0)
ProbeSaysLive(code) == code = 0

SettleDelay_Short == SettleSecs - 1
\* await this.delay(2000)
SettleDelay == SettleSecs

\* spawn(...) of a managed child: it runs, or the OS cannot create it and an
\* 'error' event is queued
Spawned(r, ok) ==
    /\ handle' = [handle EXCEPT ![r] = TRUE]
    /\ os' = [os EXCEPT ![r] = IF ok THEN "alive" ELSE "failed"]
    /\ errPending' = IF ok THEN errPending ELSE errPending \cup {r}
    \* the field now refers to a new ChildProcess: never signalled, not killed
    /\ killed' = [killed EXCEPT ![r] = FALSE]
    /\ killCalls' = [killCalls EXCEPT ![r] = {}]
    /\ delivered' = [delivered EXCEPT ![r] = {}]
    \* the child the field referred to, if it still runs, is no longer referenced
    /\ orphans' = IF os[r] = "alive" THEN orphans \cup {r} ELSE orphans
    /\ startSpawned' = startSpawned \cup {r}

\* testProcess.on('exit', (code) => ...)
ProbeExit(code, ok) ==
    /\ Idle
    /\ startPc = "redis_probe"
    /\ probeCode' = code
    /\ IF ProbeSaysLive(code)
       THEN /\ startPc' = "settle"
            /\ startTimer' = SettleDelay
            /\ ok
            /\ UNCHANGED <<redisTimer, handle, os, errPending, killed, killCalls,
                           delivered, orphans, startSpawned>>
       ELSE /\ Spawned("redis", ok)
            /\ startPc' = "redis_wait"
            /\ redisTimer' = RedisTimeoutSecs
            /\ UNCHANGED startTimer
    /\ UNCHANGED <<attempt, fetchState, uncaught,
                   stopVars, readySeen, sinceBroker, probes, okSeen, startError,
                   stopElapsed, expiredAlive, exitedInGrace>>
    /\ UNCHANGED facadeVars

\* redisProcess.stdout.on('data'): the output includes 'Ready to accept connections'
RedisReady ==
    /\ Idle
    /\ startPc = "redis_wait"
    /\ os["redis"] = "alive"
    /\ readySeen' = TRUE
    /\ startPc' = "settle"
    /\ startTimer' = SettleDelay
    /\ UNCHANGED <<attempt, redisTimer, fetchState, errPending, uncaught, childVars,
                   stopVars, probeCode, sinceBroker, probes, okSeen, startError,
                   stopElapsed, expiredAlive, exitedInGrace>>
    /\ UNCHANGED facadeVars

\* redisProcess.on('error'): reject
RedisError ==
    /\ HostRuns
    /\ ~MicrotaskPending
    /\ "redis" \in errPending
    /\ errPending' = errPending \ {"redis"}
    /\ IF startPc = "redis_wait"
       THEN RollbackBegin("redis_spawn", os)
       ELSE UNCHANGED <<startPc, startError, stopVars, killed, killCalls, delivered>>
    /\ UNCHANGED <<attempt, startTimer, redisTimer, fetchState, uncaught, handle, os, orphans, startSpawned,
                   probeCode, readySeen, sinceBroker, probes, okSeen,
                   stopElapsed, expiredAlive, exitedInGrace>>
    /\ UNCHANGED facadeVars

\* the 10 s timer of startRedis; it is never cleared, and rejecting a settled
\* promise does nothing
RedisStartTimeout ==
    /\ Idle
    /\ redisTimer = 0
    /\ redisTimer' = Off
    /\ IF startPc = "redis_wait"
       THEN RollbackBegin("redis_timeout", os)
       ELSE UNCHANGED <<startPc, startError, stopVars, killed, killCalls, delivered>>
    /\ UNCHANGED <<attempt, startTimer, fetchState, errPending, uncaught, handle, os, orphans, startSpawned,
                   probeCode, readySeen, sinceBroker, probes, okSeen,
                   stopElapsed, expiredAlive, exitedInGrace>>
    /\ UNCHANGED facadeVars

\* the settle delay is over: startWorkers()
StartWorkers(ok) ==
    /\ Idle
    /\ startPc = "settle"
    /\ startTimer = 0
    /\ startTimer' = Off
    /\ Spawned("worker", ok)
    /\ startPc' = "spawn_api"
    /\ UNCHANGED <<attempt, redisTimer, fetchState, uncaught, stopVars, histVars>>
    /\ UNCHANGED facadeVars

\* startApiServer(), the continuation of `await this.startWorkers()`
StartApiServer(ok) ==
    /\ HostRuns
    /\ startPc = "spawn_api"
    /\ Spawned("api", ok)
    /\ startPc' = "poll_issue"
    /\ attempt' = 1
    /\ UNCHANGED <<startTimer, redisTimer, fetchState, uncaught, stopVars, histVars>>
    /\ UNCHANGED facadeVars

\* workerProcess.on('error') / apiProcess.on('error'): the listener throws
SpawnErrorThrows(r) ==
    /\ HostRuns
    /\ ~MicrotaskPending
    /\ r \in {"worker", "api"}
    /\ r \in errPending
    /\ errPending' = errPending \ {r}
    /\ uncaught' = TRUE
    /\ UNCHANGED <<startPc, attempt, startTimer, redisTimer, fetchState,
                   childVars, stopVars, histVars>>
    /\ UNCHANGED facadeVars

\* ------------------------------------------------------- waitForServices()
\* fetch(`http://localhost:${port}/test`) of the current attempt
WaitForServicesBegin ==
    /\ HostRuns
    /\ startPc = "poll_issue"
    /\ startPc' = "poll_fetch"
    /\ fetchState' = "inflight"
    /\ probes' = probes + 1
    /\ UNCHANGED <<attempt, startTimer, redisTimer, errPending, uncaught, childVars,
                   stopVars, probeCode, readySeen, sinceBroker, okSeen, startError,
                   stopElapsed, expiredAlive, exitedInGrace>>
    /\ UNCHANGED facadeVars

ResponseOk_Any(outcome) == TRUE
\* if (response.ok)
ResponseOk(outcome) == outcome = "2xx"

Exhausted_OneEarly(a) == a = maxAttempts - 1
\* if (attempt === maxAttempts)
Exhausted(a) == a = maxAttempts

\* after a probe that did not return: throw on the last attempt, else delay
AfterFailedAttempt(a) == IF Exhausted(a) THEN "readiness_timeout" ELSE "delay"

OnFetchRejected_Rethrow(a) == "fetch_error"
\* catch (error) { /* Service not ready yet */ }
OnFetchRejected(a) == AfterFailedAttempt(a)

ProbeStep_ExhaustFirst(outcome, a) ==
    IF Exhausted(a) THEN "readiness_timeout"
    ELSE IF outcome = "error" THEN OnFetchRejected(a)
    ELSE IF ResponseOk(outcome) THEN "return"
    ELSE AfterFailedAttempt(a)
\* one iteration of the loop body once the fetch settled
ProbeStep(outcome, a) ==
    IF outcome = "error" THEN OnFetchRejected(a)
    ELSE IF ResponseOk(outcome) THEN "return"
    ELSE AfterFailedAttempt(a)

\* for (...; attempt <= maxAttempts; attempt++)
LoopContinues(a) == a <= maxAttempts

\* the fetch of the current attempt settles: a response, or a transport error
FetchSettles(outcome) ==
    /\ Idle
    /\ startPc = "poll_fetch"
    /\ fetchState = "inflight"
    /\ fetchState' = "none"
    /\ okSeen' = (okSeen \/ outcome = "2xx")
    /\ LET step == ProbeStep(outcome, attempt) IN
       IF step = "return"
       THEN /\ startPc' = "ok"
            /\ UNCHANGED <<startTimer, startError, stopVars, killed, killCalls, delivered>>
       ELSE IF step = "delay"
       THEN /\ startPc' = "poll_delay"
            /\ startTimer' = delaySecs
            /\ UNCHANGED <<startError, stopVars, killed, killCalls, delivered>>
       ELSE /\ RollbackBegin(step, os)
            /\ UNCHANGED startTimer
    /\ UNCHANGED <<attempt, redisTimer, errPending, uncaught, handle, os, orphans, startSpawned,
                   probeCode, readySeen, sinceBroker, probes,
                   stopElapsed, expiredAlive, exitedInGrace>>
    /\ UNCHANGED facadeVars

\* the endpoint accepted the connection and never answers: the promise of
\* fetch stays pending
FetchHangs ==
    /\ Idle
    /\ startPc = "poll_fetch"
    /\ fetchState = "inflight"
    /\ fetchState' = "hung"
    /\ UNCHANGED <<startPc, attempt, startTimer, redisTimer, errPending, uncaught,
                   childVars, stopVars, histVars>>
    /\ UNCHANGED facadeVars

\* await this.delay(delayMs) is over: attempt++ and the next iteration
PollDelayDone ==
    /\ Idle
    /\ startPc = "poll_delay"
    /\ startTimer = 0
    /\ startTimer' = Off
    /\ attempt' = attempt + 1
    /\ IF LoopContinues(attempt + 1)
       THEN /\ startPc' = "poll_fetch"
            /\ fetchState' = "inflight"
            /\ probes' = probes + 1
       ELSE /\ startPc' = "ok"
            /\ UNCHANGED <<fetchState, probes>>
    /\ UNCHANGED <<redisTimer, errPending, uncaught, childVars, stopVars,
                   probeCode, readySeen, sinceBroker, okSeen, startError,
                   stopElapsed, expiredAlive, exitedInGrace>>
    /\ UNCHANGED facadeVars

\* ------------------------------------------------------------ environment
\* only the 'exit' listener of redis-server reads the exit code
ExitCodes(r) == IF r = "redis" THEN {0, 1} ELSE {0}

\* a child exits (on its own or after a signal) and its 'exit' event is emitted
Exit(r, code) ==
    /\ os[r] = "alive"
    /\ ~HostRuns \/ ~Busy
    /\ code \in ExitCodes(r)
    /\ LET o == [os EXCEPT ![r] = "exited"] IN
       /\ os' = o
       /\ exitedInGrace' = [exitedInGrace EXCEPT ![r] = @ \/ (HostRuns /\ stopWait = r)]
       /\ IF HostRuns /\ stopWait = r
          THEN \* process.on('exit') of stop()
               /\ StopLoop(IndexOf(r) + 1, snap, Owner, ExitListenerTimer(graceTimer, r),
                           killed, killCalls, delivered, o)
               /\ startPc' = StartAfterLoop(IndexOf(r) + 1, killed)
               /\ UNCHANGED <<isShuttingDown, snap, startError>>
          ELSE IF /\ HostRuns
                  /\ r = "redis"
                  /\ startPc = "redis_wait"
                  /\ code # 0
                  /\ ~isShuttingDown
          THEN \* redisProcess.on('exit') of startRedis
               RollbackBegin("redis_exit", o)
          ELSE UNCHANGED <<startPc, startError, stopVars, killed, killCalls, delivered>>
    /\ UNCHANGED <<attempt, startTimer, redisTimer, fetchState, errPending, uncaught,
                   handle, orphans, startSpawned, probeCode, readySeen, sinceBroker, probes, okSeen,
                   stopElapsed, expiredAlive>>
    /\ UNCHANGED facadeVars

Dec(t) == IF t > 0 THEN t - 1 ELSE t
Armed == {startTimer, redisTimer} \cup {graceTimer[r] : r \in Roles}

\* one second passes; a timer that is due fires before more time passes
Tick ==
    /\ Idle
    /\ 0 \notin Armed
    /\ \E t \in Armed : t > 0
    /\ startTimer' = Dec(startTimer)
    /\ redisTimer' = Dec(redisTimer)
    /\ graceTimer' = [r \in Roles |-> Dec(graceTimer[r])]
    /\ stopElapsed' = IF stopWait # "none" THEN stopElapsed + 1 ELSE stopElapsed
    /\ sinceBroker' = IF startPc = "settle" THEN sinceBroker + 1 ELSE sinceBroker
    /\ UNCHANGED <<startPc, attempt, fetchState, errPending, uncaught, childVars,
                   isShuttingDown, stopState, snap, stopWait,
                   probeCode, readySeen, probes, okSeen, startError,
                   expiredAlive, exitedInGrace>>
    /\ UNCHANGED facadeVars

Next ==
    \/ StartCall
    \/ ProbeSpawnError
    \/ \E code \in {0, 1}, ok \in BOOLEAN : ProbeExit(code, ok)
    \/ RedisReady
    \/ RedisError
    \/ RedisStartTimeout
    \/ \E ok \in BOOLEAN : StartWorkers(ok)
    \/ \E ok \in BOOLEAN : StartApiServer(ok)
    \/ \E r \in Roles : SpawnErrorThrows(r)
    \/ WaitForServicesBegin
    \/ \E outcome \in Outcomes : FetchSettles(outcome)
    \/ FetchHangs
    \/ PollDelayDone
    \/ \E c \in Callers : StopCall(c)
    \/ \E r \in Roles : GraceTimeout(r)
    \/ \E r \in Roles, code \in {0, 1} : Exit(r, code)
    \/ Tick

Spec == Init /\ [][Next]_vars

\* ----------------------------------------------------------- healthCheck()
HealthResult_Throws(outcome) ==
    IF outcome = "error" THEN "throw"
    ELSE IF outcome = "2xx" THEN "true" ELSE "false"
\* try { ...; return response.ok; } catch { return false; }
HealthResult(outcome) ==
    IF outcome = "error" THEN "false"
    ELSE IF outcome = "2xx" THEN "true" ELSE "false"

\* healthCheck() is called and issues its fetch; the server calls it once
\* start() has resolved
HealthCheckCall ==
    /\ Idle
    /\ startPc = "ok"
    /\ hcState = "idle"
    /\ hcState' = "inflight"
    /\ hcProbes' = 1
    /\ hcOutcome' = "none"
    /\ hcReturn' = "none"
    /\ UNCHANGED <<startVars, childVars, stopVars, histVars, clVars, restartVars, hostVars>>

\* the fetch of healthCheck() settles: a response, or a rejection (transport
\* error, or the abort of the 5 s signal)
HealthCheckSettles(outcome) ==
    /\ Idle
    /\ hcState = "inflight"
    /\ hcState' = "idle"
    /\ hcOutcome' = outcome
    /\ hcReturn' = HealthResult(outcome)
    /\ UNCHANGED <<hcProbes, startVars, childVars, stopVars, histVars, clVars,
                   restartVars, hostVars>>

NextHealth ==
    \/ Next
    \/ HealthCheckCall
    \/ \E outcome \in Outcomes : HealthCheckSettles(outcome)

\* the supervisor together with callers of healthCheck()
SpecHealth == Init /\ [][NextHealth]_vars

\* ------------------------------------------------ FirecrawlClient (client.ts)
\* the `operation` argument each public method passes to handleError
Operations == {"scrape URL", "crawl website", "get crawl status", "search and scrape"}

\* `Scrape failed: `, `Crawl failed: `, ... of the success test of each method
FailurePrefix(op) ==
    CASE op = "scrape URL" -> <<"Scrape", "failed">>
      [] op = "crawl website" -> <<"Crawl", "failed">>
      [] op = "get crawl status" -> <<"Get", "crawl", "status", "failed">>
      [] op = "search and scrape" -> <<"Search", "failed">>

\* A message is the sequence of its words.  Texts the backend may put in a
\* response body; the empty one stands for an absent field or an empty body.
ErrTexts == {<< >>, <<"fetch", "failed">>, <<"timeout">>, <<"invalid", "url">>}
Statuses == {200, 404, 500}

\* A response body: the connection is lost while it is read, it is text that
\* is not JSON, or it is a JSON object with `success` and `error`.
Bodies ==
    {[form |-> "lost"]}
        \cup {[form |-> "text", text |-> t] : t \in ErrTexts}
        \cup {[form |-> "json", success |-> b, error |-> t] : b \in BOOLEAN, t \in ErrTexts}

\* What the backend does with a request: the connection cannot be made, no
\* response arrives before the abort signal fires, or a response arrives.
Replies ==
    {[kind |-> "refused"], [kind |-> "timeout"]}
        \cup {[kind |-> "response", status |-> st, body |-> b] : st \in Statuses, b \in Bodies}

\* String.prototype.includes on a message
Includes(msg, w) == \E i \in DOMAIN msg : msg[i] = w

JsError(name, msg) == [isMcp |-> FALSE, isError |-> TRUE, name |-> name, message |-> msg]
McpError(code, msg) == [isMcp |-> TRUE, isError |-> TRUE, code |-> code, message |-> msg]
Thrown(e) == [threw |-> TRUE, error |-> e]
Returned(v) == [threw |-> FALSE, value |-> v]

\* the rejection of `await fetch(url, options)`: the TypeError of a failed
\* connection, or the TimeoutError of AbortSignal.timeout
FetchRejection(reply) ==
    IF reply.kind = "refused"
    THEN JsError("TypeError", <<"fetch", "failed">>)
    ELSE JsError("TimeoutError", <<"The", "operation", "was", "aborted", "due", "to", "timeout">>)

\* the rejection of response.text() / response.json() when the connection
\* ends before the body is complete
BodyLost == JsError("TypeError", <<"terminated">>)

\* response.ok
ResponseIsOk(status) == status >= 200 /\ status <= 299

\* the body as text
RawText(body) ==
    IF body.form = "text" THEN body.text ELSE <<"{">> \o body.error \o <<"}">>

\* errorJson.error || errorJson.message || errorText, or
\* errorText || `HTTP ${response.status}` when the text is not JSON
ErrorMessageOf(status, body) ==
    IF body.form = "json"
    THEN IF body.error # << >> THEN body.error ELSE RawText(body)
    ELSE IF body.text # << >> THEN body.text ELSE <<"HTTP", ToString(status)>>

\* makeRequest(endpoint, method, body)
MakeRequest(reply) ==
    IF reply.kind # "response" THEN Thrown(FetchRejection(reply))
    ELSE IF ~ResponseIsOk(reply.status)
    THEN IF reply.body.form = "lost" THEN Thrown(BodyLost)
         ELSE Thrown(McpError("InternalError",
                              <<"Firecrawl", "API", "error", ToString(reply.status)>>
                                  \o ErrorMessageOf(reply.status, reply.body)))
    ELSE IF reply.body.form = "lost" THEN Thrown(BodyLost)
    ELSE IF reply.body.form = "text"
    THEN Thrown(JsError("SyntaxError", <<"Unexpected", "token", "in", "JSON">>))
    ELSE Returned(reply.body)

\* handleError(error, operation)
HandleError(error, op) ==
    IF error.isMcp THEN error
    ELSE IF error.isError
    THEN IF error.name = "AbortError" \/ Includes(error.message, "timeout")
         THEN McpError("InternalError", <<"Request", "to", op, "timed", "out">>)
         ELSE IF Includes(error.message, "fetch")
         THEN McpError("InternalError", <<"Unable", "to", "connect", "to", "Firecrawl", "server">>)
         ELSE McpError("InternalError", <<"Failed", "to", op>> \o error.message)
    ELSE McpError("InternalError", <<"Unknown", "error", "occurred", "while", "trying", "to", op>>)

\* scrapeUrl / crawlWebsite / getCrawlStatus / searchAndScrape: makeRequest,
\* the test of response.success, and handleError in the catch block
ClientMethod(op, reply) ==
    LET r == MakeRequest(reply) IN
    IF r.threw THEN [kind |-> "throws", error |-> HandleError(r.error, op)]
    ELSE IF ~r.value.success
    THEN [kind |-> "throws",
          error |-> HandleError(
                        McpError("InvalidRequest",
                                 FailurePrefix(op)
                                     \o (IF r.value.error # << >> THEN r.value.error
                                         ELSE <<"Unknown", "error">>)),
                        op)]
    ELSE [kind |-> "returns"]

\* a method of the client was called with operation clOp against a backend
\* that behaves as clReply
ClientCalled ==
    /\ clPc = "called"
    /\ clOp \in Operations
    /\ clReply \in Replies
    /\ clOutcome = NoOutcome

InitClient == SupervisorInit /\ HealthInit /\ ClientCalled /\ HostOff

\* the method runs to its return or throw
ClientRequest ==
    /\ clPc = "called"
    /\ clPc' = "done"
    /\ clOutcome' = ClientMethod(clOp, clReply)
    /\ UNCHANGED <<clOp, clReply, startVars, childVars, stopVars, histVars, hcVars,
                   restartVars, hostVars>>

NextClient == ClientRequest

\* one request of the client for every operation and backend behaviour
SpecClient == InitClient /\ [][NextClient]_vars

\* ------------------------------------------------------- a second start()
\* start() has no guard (no test of isShuttingDown, of the handles or of an
\* earlier result): a caller may call it again.  Here it is called once the
\* previous call has returned and no stop() is in its loop.
StartAgain ==
    /\ Idle
    /\ startPc \in {"ok", "failed"}
    /\ stopWait = "none"
    /\ restarts < MaxRestarts
    /\ restarts' = restarts + 1
    /\ terminalAtStart' = (isShuttingDown \/ startPc = "failed")
    /\ startPc' = "redis_probe"
    /\ attempt' = 0
    /\ startSpawned' = {}
    /\ probeCode' = Off
    /\ readySeen' = FALSE
    /\ sinceBroker' = 0
    /\ probes' = 0
    /\ okSeen' = FALSE
    /\ startError' = "none"
    /\ UNCHANGED <<startTimer, redisTimer, fetchState, errPending, uncaught,
                   handle, os, killed, killCalls, delivered, orphans, stopVars,
                   stopElapsed, expiredAlive, exitedInGrace, hcVars, clVars, hostVars>>

\* `redis-cli ping` exits; a redis-server that runs answers the ping
ProbeExitAnswered(code) ==
    /\ os["redis"] = "alive" => code = 0
    /\ ProbeExit(code, TRUE)

\* stop() called between the runs of start(), not during them
StopBetweenStarts(c) ==
    /\ startPc \in {"ok", "failed"}
    /\ StopCall(c)

\* The supervisor with a repeated start(), in an environment where every spawn
\* works and the readiness endpoint answers 2xx.
NextRestart ==
    \/ StartCall
    \/ StartAgain
    \/ \E code \in {0, 1} : ProbeExitAnswered(code)
    \/ RedisReady
    \/ RedisStartTimeout
    \/ StartWorkers(TRUE)
    \/ StartApiServer(TRUE)
    \/ WaitForServicesBegin
    \/ FetchSettles("2xx")
    \/ \E c \in Callers : StopBetweenStarts(c)
    \/ \E r \in Roles : GraceTimeout(r)
    \/ \E r \in Roles, code \in {0, 1} : Exit(r, code)
    \/ Tick

SpecRestart == Init /\ [][NextRestart]_vars

\* ------------------------------------- the host (firecrawlServer.ts, index.ts)
HostSignals == {"SIGINT", "SIGTERM", "uncaughtException"}

\* setupGracefulShutdown() has run: it is the last step of initialize()
HandlersRegistered == initPc = "serving"

\* start() threw: initialize() rejects, main() catches and calls process.exit(1)
InitStartFailed ==
    /\ HostRuns
    /\ initPc = "start"
    /\ startPc = "failed"
    /\ initPc' = "failed"
    /\ hostExit' = "exit1"
    /\ UNCHANGED <<initAttempts, cleanups, startVars, childVars, stopVars, histVars,
                   hcVars, clVars, restartVars>>

\* start() resolved: the health loop of initialize() makes its first
\* firecrawlClient.healthCheck() call
InitHealthProbe ==
    /\ HostRuns
    /\ initPc = "start"
    /\ startPc = "ok"
    /\ initPc' = "probe"
    /\ hcState' = "inflight"
    /\ hcProbes' = 1
    /\ hcOutcome' = "none"
    /\ hcReturn' = "none"
    /\ UNCHANGED <<initAttempts, hostExit, cleanups, startVars, childVars, stopVars,
                   histVars, clVars, restartVars>>

\* if (attempts >= maxAttempts) of initialize()
InitExhausted(n) == n >= initMaxAttempts

\* the healthCheck() of the loop returns: break, throw, or wait 2 s
InitProbeSettles(outcome) ==
    /\ Idle
    /\ initPc = "probe"
    /\ hcState = "inflight"
    /\ hcState' = "idle"
    /\ hcOutcome' = outcome
    /\ hcReturn' = HealthResult(outcome)
    /\ IF HealthResult(outcome) = "true"
       THEN \* registerTools(); setupGracefulShutdown()
            /\ initPc' = "serving"
            /\ UNCHANGED <<initAttempts, hostExit, startTimer>>
       ELSE /\ initAttempts' = initAttempts + 1
            /\ IF InitExhausted(initAttempts + 1)
               THEN \* throw: main() catches and calls process.exit(1)
                    /\ initPc' = "failed"
                    /\ hostExit' = "exit1"
                    /\ UNCHANGED startTimer
               ELSE /\ initPc' = "delay"
                    /\ startTimer' = InitDelaySecs
                    /\ UNCHANGED hostExit
    /\ UNCHANGED <<hcProbes, cleanups, startPc, attempt, redisTimer, fetchState,
                   errPending, uncaught, childVars, stopVars, histVars, clVars,
                   restartVars>>

\* the 2 s wait of the loop is over: the next healthCheck()
InitDelayDone ==
    /\ Idle
    /\ initPc = "delay"
    /\ startTimer = 0
    /\ startTimer' = Off
    /\ initPc' = "probe"
    /\ hcState' = "inflight"
    /\ hcProbes' = 1
    /\ hcOutcome' = "none"
    /\ hcReturn' = "none"
    /\ UNCHANGED <<initAttempts, hostExit, cleanups, startPc, attempt, redisTimer,
                   fetchState, errPending, uncaught, childVars, stopVars, histVars,
                   clVars, restartVars>>

\* The host receives SIGINT or SIGTERM, or an exception reaches the top level.
\* With the handlers registered cleanup() runs as caller c of stop(); before
\* that a signal has its default action and ends the host at once.
HostSignal(sig, c) ==
    /\ Idle
    /\ initPc # "off"
    /\ IF HandlersRegistered
       THEN /\ StopBody(c)
            /\ cleanups' = cleanups \cup {c}
            /\ UNCHANGED <<initPc, initAttempts, hostExit>>
       ELSE /\ sig \in {"SIGINT", "SIGTERM"}
            /\ c = 1
            /\ hostExit' = "killed"
            /\ UNCHANGED <<initPc, initAttempts, cleanups, startVars, childVars,
                           stopVars, histVars>>
    /\ UNCHANGED <<hcVars, clVars, restartVars>>

\* `await this.processManager.stop()` of a cleanup() returned: process.exit(0)
CleanupExit ==
    /\ HostRuns
    /\ \E c \in cleanups : stopState[c] = "returned"
    /\ hostExit' = "exit0"
    /\ UNCHANGED <<initPc, initAttempts, cleanups, startVars, childVars, stopVars,
                   histVars, hcVars, clVars, restartVars>>

\* the supervisor inside the host: stop() is called by cleanup() only
NextHost ==
    \/ StartCall
    \/ ProbeSpawnError
    \/ \E code \in {0, 1}, ok \in BOOLEAN : ProbeExit(code, ok)
    \/ RedisReady
    \/ RedisError
    \/ RedisStartTimeout
    \/ \E ok \in BOOLEAN : StartWorkers(ok)
    \/ \E ok \in BOOLEAN : StartApiServer(ok)
    \/ \E r \in Roles : SpawnErrorThrows(r)
    \/ WaitForServicesBegin
    \/ \E outcome \in Outcomes : FetchSettles(outcome)
    \/ FetchHangs
    \/ PollDelayDone
    \/ \E r \in Roles : GraceTimeout(r)
    \/ \E r \in Roles, code \in {0, 1} : Exit(r, code)
    \/ Tick
    \/ InitStartFailed
    \/ InitHealthProbe
    \/ \E outcome \in Outcomes : InitProbeSettles(outcome)
    \/ InitDelayDone
    \/ \E sig \in HostSignals, c \in Callers : HostSignal(sig, c)
    \/ CleanupExit

InitHost == SupervisorInit /\ HealthInit /\ ClientIdle /\ HostOn

SpecHost == InitHost /\ [][NextHost]_vars

TypeOK ==
    /\ startPc \in {"idle", "redis_probe", "redis_wait", "settle", "spawn_api",
                    "poll_issue", "poll_fetch", "poll_delay", "rollback", "ok", "failed"}
    /\ attempt \in 0 .. maxAttempts + 1
    /\ startTimer \in Off .. SettleSecs
    /\ redisTimer \in Off .. RedisTimeoutSecs
    /\ fetchState \in {"none", "inflight", "hung"}
    /\ errPending \subseteq Roles
    /\ uncaught \in BOOLEAN
    /\ handle \in [Roles -> BOOLEAN]
    /\ os \in [Roles -> {"none", "failed", "alive", "exited"}]
    /\ killed \in [Roles -> BOOLEAN]
    /\ killCalls \in [Roles -> SUBSET Signals]
    /\ delivered \in [Roles -> SUBSET Signals]
    /\ isShuttingDown \in BOOLEAN
    /\ stopState \in [Callers -> {"idle", "running", "returned"}]
    /\ snap \in [Roles -> BOOLEAN]
    /\ stopWait \in Roles \cup {"none"}
    /\ graceTimer \in [Roles -> Off .. GraceSecs]
    /\ probes \in 0 .. maxAttempts
    /\ okSeen \in BOOLEAN

\* ------------------------------------------------------------------ claims
NoOutsideStop == \A c \in 1 .. MaxStopCalls : stopState[c] = "idle"
StopFinished == isShuttingDown /\ stopWait = "none"

\* C1: once start() has returned an error, no managed process is still
\* starting or running (stated for the runs in which nobody but start() itself
\* called stop()).
C1_RollbackComplete ==
    (startPc = "failed" /\ NoOutsideStop) => \A r \in Roles : os[r] # "alive"

\* C2: a process that got SIGTERM from stop() and is still alive when its
\* grace period has elapsed is sent SIGKILL, and SIGKILL is never sent before
\* the grace period has elapsed.
C2_Escalation ==
    \A r \in Roles :
        /\ (expiredAlive[r] /\ "SIGTERM" \in delivered[r]) => "SIGKILL" \in delivered[r]
        /\ "SIGKILL" \in delivered[r] => expiredAlive[r]

\* C3: a process that exits while stop() awaits it (after SIGTERM, before the
\* grace timer fired) has its grace timer cancelled and is never the target of
\* a SIGKILL.
C3_NoKillAfterExit ==
    \A r \in Roles :
        exitedInGrace[r] => /\ graceTimer[r] = Off
                            /\ "SIGKILL" \notin killCalls[r]
                            /\ "SIGKILL" \notin delivered[r]

C3_Witness ==
    \E r \in Roles : exitedInGrace[r] /\ "SIGTERM" \in delivered[r] /\ StopFinished

\* C4: a call of stop() made when the shutting-down flag is already set (a
\* stop() in progress, completed, or the rollback of a failed start())
\* returns at once and sends no signal.
C4_IdempotentStop ==
    [][\A c \in Callers :
          (isShuttingDown /\ stopState[c] = "idle" /\ stopState'[c] # "idle")
              => /\ stopState'[c] = "returned"
                 /\ killCalls' = killCalls
                 /\ delivered' = delivered
                 /\ graceTimer' = graceTimer]_vars

C4_Witness ==
    \E c \in Callers, d \in 1 .. MaxStopCalls :
        /\ c # d
        /\ stopState[c] = "running"
        /\ stopState[d] = "returned"
        /\ \E r \in Roles : os[r] = "alive" /\ ~killed[r]

\* C5: the worker is spawned only after the broker-liveness condition held
\* (redis-cli ping exited 0, or redis-server printed ready and the settle delay
\* elapsed), and the API server only after the worker was spawned.
C5_Ordering ==
    /\ handle["worker"] =>
           \/ probeCode = 0
           \/ readySeen /\ sinceBroker >= SettleSecs
    /\ handle["api"] => handle["worker"]

C5_Witness ==
    /\ os["worker"] = "alive"
    /\ os["api"] = "alive"
    /\ os["redis"] = "alive"
    /\ readySeen

\* C6: when no probe returns success, waitForServices makes exactly
\* maxAttempts probes, no more and no fewer, and then throws the
\* readiness-timeout error without a further delay.
C6_BoundedPolling ==
    /\ probes <= maxAttempts
    /\ startError = "readiness_timeout" => (probes = maxAttempts /\ ~okSeen)
    /\ startPc = "poll_delay" => probes < maxAttempts
    /\ (startPc \in {"poll_fetch", "poll_delay"}) => probes = attempt

C6_Witness == startError = "readiness_timeout" /\ probes = maxAttempts

\* C7: start() resolves without error only after a readiness probe returned
\* 2xx, issued after the broker, worker and API-server stages were completed.
C7_SuccessMeansReady ==
    startPc = "ok" =>
        /\ okSeen
        /\ probeCode = 0 \/ readySeen
        /\ handle["worker"]
        /\ handle["api"]

C7_Witness == startPc = "ok" /\ okSeen /\ probes = 2

\* C8: a probe whose request never completes has its own timeout and consumes
\* one attempt: whenever start() awaits a probe that hangs, a step of the poll
\* (the probe being settled, here by its timeout) is possible.
C8_ProbeTimeout ==
    (startPc = "poll_fetch" /\ fetchState = "hung" /\ Idle)
        => ENABLED (\E outcome \in Outcomes : FetchSettles(outcome))

C10_ProbeFailureSwallowed ==
    [][(startPc = "poll_fetch" /\ startPc' # "poll_fetch") =>
          \/ startPc' = "ok" /\ okSeen'
          \/ startPc' = "poll_delay" /\ attempt < maxAttempts /\ startError' = "none"
          \/ /\ startPc' \in {"rollback", "failed"}
             /\ attempt = maxAttempts
             /\ startError' = "readiness_timeout"]_vars

C10_Witness == startPc = "poll_delay" /\ probes = 3 /\ ~okSeen /\ startError = "none"

\* C11: the poll ends at the first probe that gets a 2xx response: start()
\* returns success at once, on whichever attempt 1..maxAttempts that is (the
\* last one included), and no probe is issued and no delay armed afterwards.
C11_FirstSuccessWins ==
    okSeen => /\ startPc = "ok"
              /\ startError = "none"
              /\ probes = attempt
              /\ attempt \in 1 .. maxAttempts
              /\ fetchState = "none"
              /\ startTimer = Off

C11_Witness == okSeen /\ startPc = "ok" /\ probes = maxAttempts

PositionIn(order, r) == CHOOSE i \in 1 .. Len(order) : order[i] = r

\* C12: stop() signals in reverse startup order: at the moment a process is
\* first sent SIGTERM, every process that start() brings up after it and that
\* has been spawned has already been sent SIGTERM; so the API server comes
\* first, then the worker, and the broker last.
C12_ReverseOrder ==
    [][\A r, q \in Roles :
          (/\ "SIGTERM" \in killCalls'[r]
           /\ "SIGTERM" \notin killCalls[r]
           /\ PositionIn(StartupOrder, r) < PositionIn(StartupOrder, q)
           /\ handle[q])
              => "SIGTERM" \in killCalls[q]]_vars

C12_Witness ==
    /\ StopFinished
    /\ \A r \in Roles : "SIGTERM" \in delivered[r]
    /\ startPc = "ok"

\* C13: the shutting-down flag is set once and never cleared, no signal is
\* sent while it is unset, and of all the calls of stop() at most one runs the
\* termination loop: the one that found the flag unset and set it.
C13_FlagOnce ==
    [][/\ isShuttingDown => isShuttingDown'
       /\ (\E r \in Roles : killCalls'[r] # {}) => isShuttingDown'
       /\ Cardinality({c \in Callers : stopState'[c] = "running"}) <= 1
       /\ \A c \in Callers :
              (stopState[c] # "running" /\ stopState'[c] = "running")
                  => (~isShuttingDown /\ isShuttingDown')]_vars

C13_Witness ==
    /\ isShuttingDown
    /\ stopState[1] = "running"
    /\ stopState[2] = "returned"
    /\ startPc = "failed"
    /\ stopState[RollbackCaller] = "returned"
    /\ \E r \in Roles : "SIGTERM" \in delivered[r]

\* C14: a spawn failure in any of the three stages (broker, worker, API
\* server) is fatal to start(): once the 'error' event of the failed spawn has
\* been handled, start() has thrown and its rollback runs or has run.
C14_SpawnFailureFatal ==
    \A r \in Roles :
        (os[r] = "failed" /\ r \notin errPending)
            => (startPc \in {"rollback", "failed"} /\ startError # "none")

\* C15: a spawned process that exits before readiness is confirmed makes
\* start() fail: start() does not return success in a state where a process it
\* spawned has already exited (stated for the runs without an outside stop()
\* and with the API server itself alive to answer the probe).
C15_PrematureExitFatal ==
    [][(startPc # "ok" /\ startPc' = "ok" /\ NoOutsideStop' /\ os'["api"] = "alive")
          => \A r \in Roles : os'[r] # "exited"]_vars

\* C16: when stop() has returned (it never returns an error), every process
\* it signalled is confirmed terminated.
C16_StopConfirmsTermination ==
    StopFinished => \A r \in Roles : "SIGTERM" \in delivered[r] => os[r] = "exited"

\* C17: start() spawns redis-server exactly when `redis-cli ping` exited
\* non-zero; when it exited 0 (an external broker answered) the supervisor has
\* no broker handle and no stop() or rollback ever signals a broker.
C17_BrokerOwnedIffUnreachable ==
    /\ handle["redis"] <=> (probeCode # Off /\ probeCode # 0)
    /\ probeCode = 0 => /\ os["redis"] = "none"
                        /\ ~snap["redis"]
                        /\ killCalls["redis"] = {}
                        /\ delivered["redis"] = {}
                        /\ graceTimer["redis"] = Off

C17_Witness ==
    /\ probeCode = 0
    /\ StopFinished
    /\ "SIGTERM" \in delivered["api"]
    /\ "SIGTERM" \in delivered["worker"]

\* C19: start() never hangs in the broker stage: while it waits for
\* `redis-cli ping` the exit of the probe can still be handled, and while it
\* waits for redis-server the host runs with the spawn error queued or the
\* start timer armed.
C19_BrokerStageReturns ==
    /\ startPc = "redis_probe" =>
           ENABLED (\E code \in {0, 1}, ok \in BOOLEAN : ProbeExit(code, ok))
    /\ startPc = "redis_wait" =>
           (HostRuns /\ ("redis" \in errPending \/ redisTimer >= 0))

\* C18: a call of healthCheck() makes exactly one probe and no retry, returns
\* true exactly when that probe got a 2xx response and false for any other
\* response or a transport failure, never throws, and changes neither the
\* processes nor the shutting-down flag.
C18_HealthCheckContract ==
    [][/\ hcVars' # hcVars =>
              UNCHANGED <<handle, os, killed, killCalls, delivered, isShuttingDown,
                          stopState, snap, stopWait, graceTimer, startPc>>
       /\ hcProbes' <= 1
       /\ (hcState = "inflight" /\ hcState' = "idle") =>
              /\ hcProbes' = 1
              /\ hcOutcome' \in Outcomes
              /\ hcReturn' = (IF hcOutcome' = "2xx" THEN "true" ELSE "false")]_vars

C18_Witness ==
    /\ hcState = "idle"
    /\ hcOutcome = "error"
    /\ hcReturn = "false"
    /\ hcProbes = 1
    /\ stopWait = "api"
    /\ os["api"] = "alive"

\* a connection failure to the API server: no connection, or the connection
\* lost before the response is complete
ConnectionFailure(reply) ==
    \/ reply.kind = "refused"
    \/ reply.kind = "response" /\ reply.body.form = "lost"

\* a well-formed error response: a non-2xx reply, or a 2xx reply with
\* success = false
WellFormedError(reply) ==
    /\ reply.kind = "response"
    /\ reply.body.form # "lost"
    /\ \/ ~ResponseIsOk(reply.status)
       \/ reply.body.form = "json" /\ ~reply.body.success

ReportedUnavailable(out) ==
    /\ out.kind = "throws"
    /\ Len(out.error.message) >= 3
    /\ SubSeq(out.error.message, 1, 3) = <<"Unable", "to", "connect">>

\* C20: the client reports every connection failure as "unable to connect",
\* reports no well-formed error response (non-2xx, or 2xx with success =
\* false) that way, and gives no connection failure the outcome of a
\* well-formed error response.
C20_FailureClasses ==
    clPc = "done" =>
        /\ ConnectionFailure(clReply) => ReportedUnavailable(clOutcome)
        /\ WellFormedError(clReply) => ~ReportedUnavailable(clOutcome)
        /\ \A r1, r2 \in Replies :
               (ConnectionFailure(r1) /\ WellFormedError(r2))
                   => ClientMethod(clOp, r1) # ClientMethod(clOp, r2)

\* C21: a process that had already exited on its own when stop() was called
\* is not signalled and not waited for: the call that sets the flag makes no
\* kill() call for it and arms no grace timer for it.
C21_ExitedNotTerminated ==
    [][(~isShuttingDown /\ isShuttingDown') =>
          \A r \in Roles :
              os[r] = "exited" => /\ killCalls'[r] = {}
                                  /\ graceTimer'[r] = Off
                                  /\ stopWait' # r]_vars

\* C23 (as claimed): each of the worker spawn and the API-server spawn happens
\* when a settle delay has run out.
C23_SettleBeforeEachStage ==
    [][\A r \in {"worker", "api"} :
          (~handle[r] /\ handle'[r]) => startTimer = 0]_vars

\* C23 (amended): there is one settle delay, between the broker stage and the
\* worker spawn, and it elapses in full; the API server is spawned in the
\* continuation that follows the worker spawn, with no delay armed and no time
\* passing in between.
C23_SettleBeforeWorkersOnly ==
    [][/\ (~handle["worker"] /\ handle'["worker"]) =>
              (startTimer = 0 /\ sinceBroker >= SettleSecs)
       /\ (~handle["api"] /\ handle'["api"]) =>
              (startPc = "spawn_api" /\ startTimer = Off /\ handle["worker"])
       /\ startPc = "spawn_api" => (startPc' # "spawn_api" /\ sinceBroker' = sinceBroker)]_vars

C23_Witness ==
    /\ os["worker"] = "alive"
    /\ os["api"] = "alive"
    /\ sinceBroker = SettleSecs
    /\ startPc = "poll_fetch"
    /\ probes = 1

\* C24: a process handle is held exactly while the process is starting,
\* running or stopping; once the exit of the process has been observed the
\* handle is released.
C24_HandleIffLive ==
    \A r \in Roles :
        /\ os[r] = "alive" => handle[r]
        /\ os[r] = "exited" => ~handle[r]
        /\ os[r] = "none" => ~handle[r]

\* C25: stop() always returns: while it waits for a process and the host runs,
\* the grace timer of that process is armed with at most the grace period
\* left, so the wait ends by the exit of the process or by the timer, and
\* stop() has waited at most one grace period per process, also when no
\* process ever exits.
C25_StopReturns ==
    /\ (stopWait # "none" /\ HostRuns) =>
           (graceTimer[stopWait] >= 0 /\ graceTimer[stopWait] <= GraceSecs)
    /\ stopElapsed <= Len(processes) * GraceSecs
    /\ \A c \in Callers : stopState[c] = "running" => stopWait # "none"

C25_Witness ==
    /\ StopFinished
    /\ \E c \in Callers : stopState[c] = "returned"
    /\ \A r \in Roles : os[r] = "alive" /\ expiredAlive[r] /\ graceTimer[r] = Off

\* C27: when stop() was called while start() was in progress and both have
\* returned, no process the supervisor spawned is running without having been
\* sent a termination signal.
C27_StopDuringStart ==
    (startPc \in {"ok", "failed"} /\ StopFinished /\ ~NoOutsideStop)
        => \A r \in Roles : os[r] = "alive" => "SIGTERM" \in delivered[r]

\* C22: Stopped and Failed are terminal: a start() called after stop() has run
\* or after a start() that failed and rolled back spawns no process.
C22_TerminalStates ==
    terminalAtStart => startSpawned = {}

\* C30: the supervisor holds the handle of every live process it spawned:
\* start() never overwrites the handle of a process that still runs, so no
\* live process is out of the reach of stop().
C30_NoHandleOverwrite ==
    orphans = {}

\* C26: under any interleaving of host signals the host does not exit while a
\* process it spawned is running and has not been sent a termination signal
\* (stated for the exits made by the signal handler, process.exit(0)).
C26_NoExitBeforeSignalling ==
    hostExit = "exit0" =>
        \A r \in Roles : os[r] = "alive" => "SIGTERM" \in killCalls[r]

\* C28: when initialize() fails after start() has succeeded, the managed
\* processes are stopped before the host exits: no process is left running
\* without having been sent a termination signal.
C28_FailedInitializeStops ==
    (hostExit = "exit1" /\ startPc = "ok") =>
        \A r \in Roles : os[r] = "alive" => "SIGTERM" \in killCalls[r]

\* C29: a SIGINT or SIGTERM received after the first managed process was
\* spawned leads to stop() being called before the host exits.
C29_SignalLeadsToStop ==
    (hostExit \in {"killed", "exit0"} /\ startSpawned # {}) => isShuttingDown

====
